---- MODULE Spec2Model ----
(***************************************************************************)
(* A model of src/bot.py: the session store (SESSIONS, get_session), the   *)
(* two tools (edit_file, get_recent_updates, execute_tool), the document   *)
(* loader (get_all_markdown_files) and the orchestration loop ask_claude.  *)
(*                                                                         *)
(* Text is a sequence of one-character strings; a path is the sequence of  *)
(* its "/"-separated segments (file_path.split("/")).  A session is a      *)
(* Python dict object: SESSIONS maps a channel id to an object id and      *)
(* `heap` holds the objects, so that a turn keeps the object it fetched    *)
(* even after the store dropped it.  ask_claude is split at the points     *)
(* where it waits for the outside world (the model call, the tools).       *)
(***************************************************************************)
EXTENDS Integers, Sequences, FiniteSets, TLC

\* ------------------------------------------------------------- bounds
\* Number of inbound events (turns) that arrive after the initial state.
MaxTurns == 2
\* Tool-use rounds run in a behaviour (the source has no cap).
MaxRounds == 1
\* Number of clock advances in a behaviour.
MaxTicks == 1
\* Completed turns that the pre-filled initial session has behind it.
MaxWarm == 20
\* Longest file content in the runs that try the tools on many inputs.
MaxLen == 3

\* --------------------------------------------------- program constants
SESSION_TIMEOUT == 1800
MAX_MESSAGES == 40
DEFAULT_DAYS == 7

None == "None"
\* allowed_dirs = None (full access); a list of directory names otherwise.
NoList == <<None>>

\* PROJECTS, in dict order, and the display names.
PROJECTS == <<"project_alpha", "project_beta">>
ProjectName(d) == IF d = "project_alpha" THEN "Project Alpha" ELSE "Project Beta"

\* CHANNEL_ACCESS as in the sample configuration of the source: the first
\* channel may only use project_alpha, the second one is not listed.
RestrictedChannel == "C0123456789"
OpenChannel == "D0000000001"
Channels == {RestrictedChannel, OpenChannel}
CHANNEL_ACCESS == [c \in {RestrictedChannel} |-> <<"project_alpha">>]

get_allowed_dirs(channel_id) ==
    IF channel_id \in DOMAIN CHANNEL_ACCESS THEN CHANNEL_ACCESS[channel_id] ELSE NoList

\* ------------------------------------------------------------ the disk
\* The files under PROJECT_ROOT, in directory-listing order.
DiskOrder ==
    << <<"readme.md">>, <<"CLAUDE.md">>,
       <<"project_alpha", "todo.md">>, <<"project_alpha", "data.txt">>,
       <<"project_beta", "notes.md">>, <<"project_beta", "locked.md">> >>
DiskPaths == {DiskOrder[i] : i \in 1..Len(DiskOrder)}
\* Files whose read_text() raises (no permission, not UTF-8).
Unreadable == {<<"project_beta", "locked.md">>}
InitFiles == [p \in DiskPaths |-> IF p = <<"project_alpha", "data.txt">>
                                    THEN <<"A">> ELSE <<"A", "x", "A">>]

\* Path.suffix of a file name.
Suffix(name) ==
    IF name \in {"readme.md", "CLAUDE.md", "todo.md", "notes.md", "locked.md", "missing.md"}
    THEN ".md"
    ELSE IF name = "data.txt" THEN ".txt" ELSE ""

SeqElems(s) == {s[i] : i \in 1..Len(s)}
Last(s) == s[Len(s)]

\* --------------------------------------------------------------- text
\* `find in content` / content.find(find): the first index at which find
\* occurs in content, 0 when it does not occur.
OccursAt(content, find, i) ==
    /\ i + Len(find) - 1 <= Len(content)
    /\ \A k \in 1..Len(find) : content[i + k - 1] = find[k]

FirstIndex(content, find) ==
    LET hits == {i \in 1..(Len(content) + 1) : OccursAt(content, find, i)}
    IN  IF hits = {} THEN 0 ELSE CHOOSE i \in hits : \A j \in hits : i <= j

Contains(content, find) == FirstIndex(content, find) # 0

\* ReplaceFirst, without the count: content.replace(find, repl).
RECURSIVE ReplaceEvery(_, _, _)
ReplaceEvery(content, find, repl) ==
    LET i == FirstIndex(content, find)
    IN  IF i = 0 THEN content
        ELSE IF find = <<>> THEN repl \o content
        ELSE SubSeq(content, 1, i - 1) \o repl
             \o ReplaceEvery(SubSeq(content, i + Len(find), Len(content)), find, repl)

\* content.replace(find, repl, 1)
ReplaceFirst(content, find, repl) ==
    LET i == FirstIndex(content, find)
    IN  IF i = 0 THEN content
        ELSE SubSeq(content, 1, i - 1) \o repl
             \o SubSeq(content, i + Len(find), Len(content))

\* ------------------------------------------------------------- paths
\* PROJECT_ROOT / file_path, as the file system resolves it: a ".." segment
\* leaves the directory entered by the segment before it.
RECURSIVE Normalize(_, _)
Normalize(path, acc) ==
    IF path = <<>> THEN acc
    ELSE IF path[1] = ".." /\ acc # <<>> /\ Last(acc) # ".."
         THEN Normalize(Tail(path), SubSeq(acc, 1, Len(acc) - 1))
         ELSE IF path[1] = "."
              THEN Normalize(Tail(path), acc)
              ELSE Normalize(Tail(path), Append(acc, path[1]))

\* Where PROJECT_ROOT is, as an absolute path ("/srv/docs").
RootAbs == <<"", "srv", "docs">>

\* PROJECT_ROOT / file_path: an absolute file_path (it starts with "/", so its
\* first segment is empty) replaces PROJECT_ROOT.  The result is given
\* relative to PROJECT_ROOT when it lies below it.
Resolve(file_path) ==
    IF file_path # <<>> /\ file_path[1] = ""
    THEN IF Len(file_path) > Len(RootAbs) /\ SubSeq(file_path, 1, Len(RootAbs)) = RootAbs
         THEN Normalize(SubSeq(file_path, Len(RootAbs) + 1, Len(file_path)), <<>>)
         ELSE Normalize(file_path, <<>>)
    ELSE Normalize(file_path, <<>>)

Exists(files, file_path) == Resolve(file_path) \in DOMAIN files

\* ------------------------------------------------- get_all_markdown_files
\* One rendered section: "## File: <path> (<project>)\n\n<content>".
Section(path, label, body) == [path |-> path, label |-> label, body |-> body]

ReadError == <<"Error reading file">>
NoProjectFiles == <<Section(<<>>, "", <<"No project files found.">>)>>

\* try: read_text() ... except: the error placeholder, named by file name only.
RootSection(files, p) ==
    IF p \in Unreadable THEN Section(<<Last(p)>>, "", ReadError)
    ELSE Section(<<Last(p)>>, "", files[p])

ProjectSection(files, p) ==
    IF p \in Unreadable THEN Section(<<Last(p)>>, "", ReadError)
    ELSE Section(p, ProjectName(p[1]), files[p])

\* RootFiles, whatever the access.
RootFilesAnyScope(allowed_dirs) ==
    SelectSeq(DiskOrder, LAMBDA p : Len(p) = 1 /\ Suffix(p[1]) = ".md" /\ p[1] # "CLAUDE.md")

\* PROJECT_ROOT.glob("*.md") without CLAUDE.md, only with full access.
RootFiles(allowed_dirs) ==
    IF allowed_dirs = NoList
    THEN SelectSeq(DiskOrder, LAMBDA p : Len(p) = 1 /\ Suffix(p[1]) = ".md" /\ p[1] # "CLAUDE.md")
    ELSE <<>>

\* (PROJECT_ROOT / proj_dir).glob("**/*.md") for the directories not skipped.
ProjectFiles(allowed_dirs, proj_dir) ==
    IF allowed_dirs # NoList /\ proj_dir \notin SeqElems(allowed_dirs) THEN <<>>
    ELSE SelectSeq(DiskOrder, LAMBDA p : Len(p) > 1 /\ p[1] = proj_dir /\ Suffix(Last(p)) = ".md")

RECURSIVE ProjectSections(_, _, _)
ProjectSections(files, allowed_dirs, k) ==
    IF k > Len(PROJECTS) THEN <<>>
    ELSE LET found == ProjectFiles(allowed_dirs, PROJECTS[k])
         IN  [i \in 1..Len(found) |-> ProjectSection(files, found[i])]
             \o ProjectSections(files, allowed_dirs, k + 1)

get_all_markdown_files(files, allowed_dirs) ==
    LET root == RootFiles(allowed_dirs)
        files_content ==
            [i \in 1..Len(root) |-> RootSection(files, root[i])]
            \o ProjectSections(files, allowed_dirs, 1)
    IN  IF files_content # <<>> THEN files_content ELSE NoProjectFiles

\* ------------------------------------------------------------- edit_file
\* What a tool call leaves behind: the string it returns (or the exception it
\* raises, raised = TRUE) and the files after it.
Returned(text, files) == [result |-> text, files |-> files, raised |-> FALSE]
Raised(what, files) == [result |-> what, files |-> files, raised |-> TRUE]

\* The strings edit_file returns, by their f-string and what is put into it.
AccessDenied(file_dir) == <<"Error: You don't have access to edit files in", file_dir>>
DoesNotExist(file_path) == <<"Error: File does not exist.", file_path>>
NotMarkdown == <<"Error: Can only edit markdown (.md) files.", None>>
TextNotFound(file_path) == <<"Error: Could not find the specified text in", file_path>>
Updated(file_path) == <<"Updated: replaced text successfully.", file_path>>

\* file_dir = file_path.split("/")[0] if "/" in file_path else None
FileDir(file_path) == IF Len(file_path) > 1 THEN file_path[1] ELSE None

\* Denied, with a path that names no directory let through.
DeniedUnlessRootLevel(file_path, allowed_dirs) ==
    /\ allowed_dirs # NoList
    /\ FileDir(file_path) # None
    /\ FileDir(file_path) \notin SeqElems(allowed_dirs)

\* if allowed_dirs is not None: ... if file_dir not in allowed_dirs
Denied(file_path, allowed_dirs) ==
    allowed_dirs # NoList /\ FileDir(file_path) \notin SeqElems(allowed_dirs)

\* edit_file, without the check of the suffix.
edit_file_any_suffix(file_path, find_text, replace_text, allowed_dirs, files) ==
    LET full_path == Resolve(file_path)
    IN  IF Denied(file_path, allowed_dirs)
        THEN Returned(AccessDenied(FileDir(file_path)), files)
        ELSE IF ~Exists(files, file_path)
        THEN Returned(DoesNotExist(file_path), files)
        ELSE IF full_path \in Unreadable
        THEN Raised(<<"OSError", None>>, files)
        ELSE IF ~Contains(files[full_path], find_text)
        THEN Returned(TextNotFound(file_path), files)
        ELSE Returned(Updated(file_path),
                 [files EXCEPT ![full_path] = ReplaceFirst(@, find_text, replace_text)])

edit_file(file_path, find_text, replace_text, allowed_dirs, files) ==
    LET full_path == Resolve(file_path)
    IN  IF Denied(file_path, allowed_dirs)
        THEN Returned(AccessDenied(FileDir(file_path)), files)
        ELSE IF ~Exists(files, file_path)
        THEN Returned(DoesNotExist(file_path), files)
        ELSE IF Suffix(Last(full_path)) # ".md"
        THEN Returned(NotMarkdown, files)
        ELSE IF full_path \in Unreadable
        THEN Raised(<<"OSError", None>>, files)
        ELSE IF ~Contains(files[full_path], find_text)
        THEN Returned(TextNotFound(file_path), files)
        ELSE Returned(Updated(file_path),
                 [files EXCEPT ![full_path] = ReplaceFirst(@, find_text, replace_text)])

\* ------------------------------------------------------ get_recent_updates
\* The outcomes of the git queries: the log query fails, the log is empty,
\* there are commits (anything else that raises inside the try block gives
\* an error string as well).
GitOutcomes == {"git_error", "empty", "commits"}

get_recent_updates(days, git) ==
    IF git = "exception" THEN <<"Error getting git history", None>>
    ELSE IF git = "git_error" THEN <<"Error running git log", None>>
    ELSE IF git = "empty" THEN <<"No commits found in the last days", None>>
    ELSE <<"Git history for the last days", None>>

\* ----------------------------------------------------------- execute_tool
UnknownTool(tool_name) == <<"Unknown tool", tool_name>>

\* tool_input["file_path"], ["find_text"], ["replace_text"]: a KeyError when
\* the model left one out.
EditKeys == {"file_path", "find_text", "replace_text"}

execute_tool(tool_name, tool_input, allowed_dirs, files, git) ==
    IF tool_name = "edit_file"
    THEN IF ~(EditKeys \subseteq DOMAIN tool_input)
         THEN Raised(<<"KeyError", None>>, files)
         ELSE edit_file(tool_input.file_path, tool_input.find_text,
                        tool_input.replace_text, allowed_dirs, files)
    ELSE IF tool_name = "get_recent_updates"
    THEN Returned(get_recent_updates(
                      IF "days" \in DOMAIN tool_input THEN tool_input.days ELSE DEFAULT_DAYS,
                      git), files)
    ELSE Returned(UnknownTool(tool_name), files)

\* ------------------------------------------------------------- messages
Message(role, content) == [role |-> role, content |-> content]

\* A Python str used as a message's content.
Str(text) == <<[type |-> "str", text |-> text]>>

\* The two f-strings of the user message: the project files and the request,
\* or the note that the files are still available and the request.
StillAvailable ==
    <<Section(<<>>, "", <<"(Project files still available from earlier in conversation)">>)>>

ContextMessage(messages, project_context, user_message) ==
    IF messages = <<>>
    THEN <<[type |-> "str", files |-> project_context, request |-> user_message]>>
    ELSE <<[type |-> "str", files |-> StillAvailable, request |-> user_message]>>

\* session["messages"].append({"role": "user", "content": context_message})
AppendUser(messages, project_context, user_message) ==
    Append(messages, Message("user", ContextMessage(messages, project_context, user_message)))

\* Truncate, keeping the oldest messages instead: session["messages"][:40].
TruncateKeepsOldest(messages) ==
    IF Len(messages) > MAX_MESSAGES THEN SubSeq(messages, 1, MAX_MESSAGES) ELSE messages

\* if len(session["messages"]) > 40: session["messages"] = session["messages"][-40:]
Truncate(messages) ==
    IF Len(messages) > MAX_MESSAGES
    THEN SubSeq(messages, Len(messages) - MAX_MESSAGES + 1, Len(messages))
    ELSE messages

\* The append of the assistant reply and the trimming after it.
SaveReply(messages, response_text) ==
    Truncate(Append(messages, Message("assistant", Str(response_text))))

\* ------------------------------------------------------------ responses
TextBlock(text) == [type |-> "text", text |-> text]
ToolUse(id, name, input) == [type |-> "tool_use", id |-> id, name |-> name, input |-> input]
ToolResult(id, content) == [type |-> "tool_result", tool_use_id |-> id, content |-> content]

Fallback == "I completed the action but have no additional message."

\* ResponseText, without the break: the last block with text wins.
ResponseTextLast(response) ==
    LET texts == SelectSeq(response.content, LAMBDA b : "text" \in DOMAIN b)
    IN  IF texts # <<>> THEN texts[Len(texts)].text ELSE Fallback

\* for block in response.content: if hasattr(block, "text"): ... break
ResponseText(response) ==
    LET texts == SelectSeq(response.content, LAMBDA b : "text" \in DOMAIN b)
    IN  IF texts # <<>> THEN texts[1].text ELSE Fallback

ErrorText(e) == <<"Sorry, I encountered an error", e>>

\* The tool inputs the model sends in this model of it.
Edit(path, find, repl) == [file_path |-> path, find_text |-> find, replace_text |-> repl]
EditAlpha == Edit(<<"project_alpha", "todo.md">>, <<"A">>, <<"B">>)
EditAlphaAbsent == Edit(<<"project_alpha", "todo.md">>, <<"Z">>, <<"B">>)
EditAlphaText == Edit(<<"project_alpha", "data.txt">>, <<"A">>, <<"B">>)
EditBeta == Edit(<<"project_beta", "notes.md">>, <<"A", "x", "A">>, <<"B">>)
EditBetaMissing == Edit(<<"project_beta", "missing.md">>, <<"A">>, <<"B">>)
EditBetaLocked == Edit(<<"project_beta", "locked.md">>, <<"A">>, <<"B">>)
EditRoot == Edit(<<"readme.md">>, <<"A", "x", "A">>, <<"B">>)
EditNoFind == [file_path |-> <<"project_alpha", "todo.md">>, replace_text |-> <<"B">>]

\* The content of the responses that request tools ...
ToolContents ==
    { <<TextBlock("editing"), ToolUse("tu_1", "edit_file", EditAlpha)>>,
      <<ToolUse("tu_1", "edit_file", EditBeta), ToolUse("tu_2", "edit_file", EditRoot)>>,
      <<ToolUse("tu_1", "delete_file", EditAlpha), ToolUse("tu_2", "edit_file", EditBetaMissing),
        ToolUse("tu_3", "edit_file", EditAlphaText), ToolUse("tu_4", "edit_file", EditAlphaAbsent),
        ToolUse("tu_5", "get_recent_updates", [days |-> 3])>>,
      <<ToolUse("tu_1", "edit_file", EditNoFind), ToolUse("tu_2", "edit_file", EditAlpha)>>,
      <<ToolUse("tu_1", "edit_file", EditBetaLocked), ToolUse("tu_2", "edit_file", EditAlpha)>> }

\* ... and of those that do not.
FinalContents == { <<TextBlock("done")>>, <<>> }

ToolResponses == {[stop_reason |-> "tool_use", content |-> c] : c \in ToolContents}
FinalResponses == {[stop_reason |-> "end_turn", content |-> c] : c \in FinalContents}
NoResponse == [stop_reason |-> None, content |-> <<>>]

\* RunTools, with each result put in front of the earlier ones.
RECURSIVE RunToolsNewestFirst(_, _, _, _, _, _)
RunToolsNewestFirst(content, k, allowed_dirs, files, git, tool_results) ==
    IF k > Len(content)
    THEN [tool_results |-> tool_results, files |-> files, raised |-> FALSE, error |-> <<None, None>>]
    ELSE IF content[k].type # "tool_use"
    THEN RunToolsNewestFirst(content, k + 1, allowed_dirs, files, git, tool_results)
    ELSE LET out == execute_tool(content[k].name, content[k].input, allowed_dirs, files, git)
         IN  IF out.raised
             THEN [tool_results |-> tool_results, files |-> out.files, raised |-> TRUE,
                   error |-> out.result]
             ELSE RunToolsNewestFirst(content, k + 1, allowed_dirs, out.files, git,
                           <<ToolResult(content[k].id, out.result)>> \o tool_results)

\* The for loop over response.content: every tool_use block is executed in
\* turn and its result collected; an exception leaves the loop.
RECURSIVE RunTools(_, _, _, _, _, _)
RunTools(content, k, allowed_dirs, files, git, tool_results) ==
    IF k > Len(content)
    THEN [tool_results |-> tool_results, files |-> files, raised |-> FALSE, error |-> <<None, None>>]
    ELSE IF content[k].type # "tool_use"
    THEN RunTools(content, k + 1, allowed_dirs, files, git, tool_results)
    ELSE LET out == execute_tool(content[k].name, content[k].input, allowed_dirs, files, git)
         IN  IF out.raised
             THEN [tool_results |-> tool_results, files |-> out.files, raised |-> TRUE,
                   error |-> out.result]
             ELSE RunTools(content, k + 1, allowed_dirs, out.files, git,
                           Append(tool_results, ToolResult(content[k].id, out.result)))

\* ---------------------------------------------------------------- state
Turns == 1..MaxTurns
\* One object per stored session and one per turn that may hold a dropped one.
ObjIds == 1..(Cardinality(Channels) + MaxTurns)

VARIABLES
    SESSIONS,   \* channel id -> id of its session object, 0 when it has none
    heap,       \* object id -> the session dict: messages, last_activity
    disk,       \* path -> content of the file
    clock,      \* time.time(), in seconds
    turn,       \* per inbound event: where its handler stands, ask_claude's locals
    rounds      \* tool-use rounds run so far
vars == <<SESSIONS, heap, disk, clock, turn, rounds>>

NoObject == [messages |-> <<>>, last_activity |-> -1]
NoResult == [kind |-> None, text |-> <<None, None>>]

\* A turn that has not arrived yet.  pc: idle, loading (get_session done,
\* reading the documents), calling (a model request is in flight), tools (a
\* response asked for tools), returned (ask_claude returned or raised),
\* closed (the handler is over).  `system` is the files appendix of the
\* request in flight, `found` the channel's stored session as the turn's
\* get_session call found it, `dropped` the channels whose session it deleted.
IdleTurn ==
    [pc |-> "idle", channel |-> None, user_message |-> 0, session |-> 0,
     allowed_dirs |-> NoList, project_context |-> <<>>, messages |-> <<>>,
     response |-> NoResponse, system |-> <<>>,
     found |-> NoObject, dropped |-> {},
     result |-> NoResult]

\* What ask_claude leaves when it is over: what it returned or raised (and
\* the response it made a reply of); its other locals are gone.
ReturnedTurn(tr, kind, text) ==
    [IdleTurn EXCEPT !.pc = "returned", !.channel = tr.channel,
                     !.user_message = tr.user_message,
                     !.result = [kind |-> kind, text |-> text]]

ClosedTurn == [IdleTurn EXCEPT !.pc = "closed"]

Running(tr) == tr.pc \in {"loading", "calling", "tools", "returned"}

\* The objects some reference still leads to; the others are garbage.
Referenced(sessions, turns) ==
    ({sessions[c] : c \in Channels} \cup {turns[t].session : t \in Turns}) \ {0}

Collect(sessions, objects, turns) ==
    [o \in ObjIds |-> IF o \in Referenced(sessions, turns) THEN objects[o] ELSE NoObject]

\* ----------------------------------------------------------- get_session
\* Expired, with >= for >.
ExpiredAtTimeout(session, now) == now - session.last_activity >= SESSION_TIMEOUT

\* now - session["last_activity"] > SESSION_TIMEOUT
Expired(session, now) == now - session.last_activity > SESSION_TIMEOUT

\* Sweep, without the clean-up of the other channels' sessions.
SweepNothing(sessions, objects, now) == sessions

\* Sweep, with every session taken for expired.
SweepAll(sessions, objects, now) == [cid \in Channels |-> 0]

\* expired = [cid ...]; for cid in expired: del SESSIONS[cid]
Sweep(sessions, objects, now) ==
    [cid \in Channels |->
        IF sessions[cid] # 0 /\ Expired(objects[sessions[cid]], now) THEN 0 ELSE sessions[cid]]

\* The whole of get_session: the store and the objects after it, and the
\* object it returns.  `held` are the objects running turns still hold.
get_session(sessions, objects, channel_id, now, held) ==
    LET swept == Sweep(sessions, objects, now)
        used == ({swept[c] : c \in Channels} \cup held) \ {0}
        fresh == CHOOSE o \in ObjIds \ used : \A q \in ObjIds \ used : o <= q
    IN  IF swept[channel_id] = 0 \/ Expired(objects[swept[channel_id]], now)
        THEN [SESSIONS |-> [swept EXCEPT ![channel_id] = fresh],
              heap |-> [objects EXCEPT ![fresh] = [messages |-> <<>>, last_activity |-> now]],
              session |-> fresh]
        ELSE [SESSIONS |-> swept,
              heap |-> [objects EXCEPT ![swept[channel_id]].last_activity = now],
              session |-> swept[channel_id]]

\* A channel's session dict as a call finds it, if it has one.
Stored(c) == IF SESSIONS[c] # 0 THEN heap[SESSIONS[c]] ELSE NoObject

\* ------------------------------------------------------------------ Init
\* The text of the n-th event.
UserText(n) == n

\* The session a conversation has after n completed turns without tools.
RECURSIVE WarmMessages(_)
WarmMessages(n) ==
    IF n = 0 THEN <<>>
    ELSE SaveReply(AppendUser(WarmMessages(n - 1),
                              get_all_markdown_files(InitFiles, NoList), UserText(n)),
                   "done")

\* Either nothing has happened yet, or the open channel has MaxWarm completed
\* turns behind it, the last of them just now.
Init ==
    /\ clock = 0
    /\ rounds = 0
    /\ disk = InitFiles
    /\ turn = [t \in Turns |-> IdleTurn]
    /\ \E warm \in {0, MaxWarm} :
         IF warm = 0
         THEN /\ SESSIONS = [c \in Channels |-> 0]
              /\ heap = [o \in ObjIds |-> NoObject]
         ELSE /\ SESSIONS = [c \in Channels |-> IF c = OpenChannel THEN 1 ELSE 0]
              /\ heap = [o \in ObjIds |->
                            IF o = 1
                            THEN [messages |-> WarmMessages(warm), last_activity |-> 0]
                            ELSE NoObject]

\* --------------------------------------------------------------- actions
\* An event for channel c arrives and its handler calls ask_claude, which
\* calls get_session and get_allowed_dirs.  Events are numbered as they arrive.
StartTurn(t, c) ==
    /\ turn[t].pc = "idle"
    /\ \A u \in Turns : u < t => turn[u].pc # "idle"
    /\ LET got == get_session(SESSIONS, heap, c, clock,
                              {turn[u].session : u \in Turns})
           started == [turn EXCEPT ![t] =
                          [@ EXCEPT !.pc = "loading", !.channel = c,
                                    !.user_message = UserText(MaxWarm + t),
                                    !.session = got.session,
                                    !.allowed_dirs = get_allowed_dirs(c),
                                    !.found = Stored(c),
                                    !.dropped = {d \in Channels \ {c} :
                                                    SESSIONS[d] # 0 /\ got.SESSIONS[d] = 0}]]
       IN  /\ turn' = started
           /\ SESSIONS' = got.SESSIONS
           /\ heap' = Collect(got.SESSIONS, got.heap, started)
    /\ UNCHANGED <<disk, clock, rounds>>

\* get_all_markdown_files returns; the user message is built and appended to
\* the session, the session's messages are copied and the first request is sent.
LoadDocuments(t) ==
    /\ turn[t].pc = "loading"
    /\ LET tr == turn[t]
           project_context == get_all_markdown_files(disk, tr.allowed_dirs)
           stored == AppendUser(heap[tr.session].messages, project_context, tr.user_message)
       IN  /\ heap' = [heap EXCEPT ![tr.session].messages = stored]
           /\ turn' = [turn EXCEPT ![t] =
                          [@ EXCEPT !.pc = "calling",
                                    !.project_context = project_context,
                                    !.messages = stored,
                                    !.system = project_context]]
    /\ UNCHANGED <<SESSIONS, disk, clock, rounds>>

\* Listing the directories fails (an OSError from glob or exists): the call
\* is outside the try block, so ask_claude raises.
LoadRaises(t) ==
    /\ turn[t].pc = "loading"
    /\ LET ended == [turn EXCEPT ![t] = ReturnedTurn(@, "raised", <<"OSError", None>>)]
       IN  /\ turn' = ended
           /\ heap' = Collect(SESSIONS, heap, ended)
    /\ UNCHANGED <<SESSIONS, disk, clock, rounds>>

\* The model answers with stop_reason "tool_use".
ModelRequestsTools(t, r) ==
    /\ turn[t].pc = "calling"
    /\ rounds < MaxRounds
    /\ r.stop_reason = "tool_use"
    /\ turn' = [turn EXCEPT ![t] = [@ EXCEPT !.pc = "tools", !.response = r]]
    /\ rounds' = rounds + 1
    /\ UNCHANGED <<SESSIONS, heap, disk, clock>>

\* RunToolRound, with messages = session["messages"] for the copy: the list
\* the round appends to is the session's own.
RunToolRoundOnSession(t, git) ==
    /\ turn[t].pc = "tools"
    /\ LET tr == turn[t]
           ran == RunTools(tr.response.content, 1, tr.allowed_dirs, disk, git, <<>>)
           ended == [turn EXCEPT ![t] = ReturnedTurn(@, "error", ErrorText(ran.error))]
           round == << Message("assistant", tr.response.content),
                       Message("user", ran.tool_results) >>
       IN  /\ disk' = ran.files
           /\ IF ran.raised
              THEN /\ turn' = ended
                   /\ heap' = Collect(SESSIONS, heap, ended)
              ELSE /\ turn' = [turn EXCEPT ![t] =
                                  [@ EXCEPT !.pc = "calling",
                                            !.messages = tr.messages \o round,
                                            !.system = tr.project_context,
                                            !.response = NoResponse]]
                   /\ heap' = [heap EXCEPT ![tr.session].messages = @ \o round]
    /\ UNCHANGED <<SESSIONS, clock, rounds>>

\* One pass of the while loop: the tools run, the two messages are appended
\* to the local list and the model is called again; an exception in a tool
\* ends ask_claude in its except clause.
RunToolRound(t, git) ==
    /\ turn[t].pc = "tools"
    /\ LET tr == turn[t]
           ran == RunTools(tr.response.content, 1, tr.allowed_dirs, disk, git, <<>>)
           ended == [turn EXCEPT ![t] = ReturnedTurn(@, "error", ErrorText(ran.error))]
       IN  /\ disk' = ran.files
           /\ IF ran.raised
              THEN /\ turn' = ended
                   /\ heap' = Collect(SESSIONS, heap, ended)
              ELSE /\ turn' = [turn EXCEPT ![t] =
                                  [@ EXCEPT !.pc = "calling",
                                            !.messages = tr.messages \o
                                                << Message("assistant", tr.response.content),
                                                   Message("user", ran.tool_results) >>,
                                            !.system = tr.project_context,
                                            !.response = NoResponse]]
                   /\ heap' = heap
    /\ UNCHANGED <<SESSIONS, clock, rounds>>

\* The model answers without asking for tools: the reply is extracted, saved
\* to the session, the session is trimmed and the reply returned.
ModelReplies(t, r) ==
    /\ turn[t].pc = "calling"
    /\ r.stop_reason # "tool_use"
    /\ LET tr == turn[t]
           response_text == ResponseText(r)
           ended == [turn EXCEPT ![t] =
                        [ReturnedTurn(@, "reply", <<response_text, None>>) EXCEPT !.response = r]]
       IN  /\ turn' = ended
           /\ heap' = Collect(SESSIONS,
                              [heap EXCEPT ![tr.session].messages = SaveReply(@, response_text)],
                              ended)
    /\ UNCHANGED <<SESSIONS, disk, clock, rounds>>

\* ModelFails, with the error string saved to the session as a reply.
ModelFailsSavesError(t) ==
    /\ turn[t].pc = "calling"
    /\ LET ended == [turn EXCEPT ![t] = ReturnedTurn(@, "error", ErrorText(<<"APIError", None>>))]
       IN  /\ turn' = ended
           /\ heap' = Collect(SESSIONS,
                              [heap EXCEPT ![turn[t].session].messages = SaveReply(@, "error")],
                              ended)
    /\ UNCHANGED <<SESSIONS, disk, clock, rounds>>

\* claude.messages.create raises (network, API error): the except clause
\* returns the error string.
ModelFails(t) ==
    /\ turn[t].pc = "calling"
    /\ LET ended == [turn EXCEPT ![t] = ReturnedTurn(@, "error", ErrorText(<<"APIError", None>>))]
       IN  /\ turn' = ended
           /\ heap' = Collect(SESSIONS, heap, ended)
    /\ UNCHANGED <<SESSIONS, disk, clock, rounds>>

\* The handler posts what ask_claude returned (say(response)), or ends with
\* the exception ask_claude raised.
Deliver(t) ==
    /\ turn[t].pc = "returned"
    /\ turn' = [turn EXCEPT ![t] = ClosedTurn]
    /\ UNCHANGED <<SESSIONS, heap, disk, clock, rounds>>

\* Time passes: just the timeout, or one second more.
Tick(d) ==
    /\ clock + d <= MaxTicks * (SESSION_TIMEOUT + 1)
    /\ clock' = clock + d
    /\ UNCHANGED <<SESSIONS, heap, disk, turn, rounds>>

Step(t) ==
    \/ LoadDocuments(t)
    \/ LoadRaises(t)
    \/ \E r \in ToolResponses : ModelRequestsTools(t, r)
    \/ \E git \in GitOutcomes : RunToolRound(t, git)
    \/ \E r \in FinalResponses : ModelReplies(t, r)
    \/ ModelFails(t)
    \/ Deliver(t)

\* One turn at a time: an event is taken up when no handler is running.
NoneRunning == \A u \in Turns : ~Running(turn[u])

Next ==
    \/ \E t \in Turns, c \in Channels : NoneRunning /\ StartTurn(t, c)
    \/ \E t \in Turns : Step(t)
    \/ \E d \in {SESSION_TIMEOUT, SESSION_TIMEOUT + 1} : NoneRunning /\ Tick(d)

\* Events are handled one after the other.  The clock is read by get_session
\* alone, so time that passes during a turn is time that passes after it.
Spec == Init /\ [][Next]_vars

\* Every call a handler waits for (the document load, the model, the tools)
\* comes back or fails, and a handler that can go on does.
FairSpec == Spec /\ \A t \in Turns : WF_vars(Step(t))

\* The store is empty at start-up.
ConcInit == Init /\ SESSIONS = [c \in Channels |-> 0]

\* The steps of a handler that work on the session store; the tool rounds,
\* which work on the files and the turn's own list, are left to Spec.
ConcStep(t) ==
    \/ LoadDocuments(t)
    \/ LoadRaises(t)
    \/ \E r \in FinalResponses : ModelReplies(t, r)
    \/ ModelFails(t)
    \/ Deliver(t)

ConcNext ==
    \/ \E t \in Turns, c \in Channels : StartTurn(t, c)
    \/ \E t \in Turns : ConcStep(t)
    \/ Tick(SESSION_TIMEOUT + 1)

\* Events are handled as they arrive, whatever else is running (the
\* listeners run on a pool of threads), and any handler may be the next to
\* go on.  Time passes at any point, more than the timeout at once.
ConcSpec == ConcInit /\ [][ConcNext]_vars

\* ------------------------------------------------------ the tools, tried
\* File contents, find_text and replace_text of the calls that are tried.
Texts(n) == UNION {[1..k -> {"A", "x"}] : k \in 0..n}
ProbeFinds == Texts(MaxLen - 1)
ProbeRepls == {<<>>, <<"B">>, <<"A", "B">>}

\* The paths the model asks to edit: files of both projects and of the root,
\* a file that is not markdown, one that does not exist, one that cannot be
\* read, paths that leave a project directory through "..", and absolute ones.
ProbePaths ==
    { <<"project_alpha", "todo.md">>, <<"project_beta", "notes.md">>, <<"readme.md">>,
      <<"project_alpha", "data.txt">>, <<"project_beta", "missing.md">>,
      <<"project_beta", "locked.md">>,
      <<"project_alpha", "..", "readme.md">>,
      <<"project_alpha", "..", "project_beta", "notes.md">>,
      RootAbs \o <<"project_alpha", "todo.md">>,
      <<"", "etc", "motd.md">> }

ProbeResponses ==
    {[stop_reason |-> "tool_use",
      content |-> <<ToolUse("tu_1", "edit_file", Edit(p, f, r))>>] :
        p \in ProbePaths, f \in ProbeFinds, r \in ProbeRepls}

\* Responses that end the loop: no block, one or two text blocks, and
\* responses cut off at max_tokens with a tool_use block and no text, or with
\* text after it.
ProbeFinals ==
    { [stop_reason |-> "end_turn", content |-> <<>>],
      [stop_reason |-> "end_turn", content |-> <<TextBlock("done")>>],
      [stop_reason |-> "end_turn", content |-> <<TextBlock("first"), TextBlock("second")>>],
      [stop_reason |-> "max_tokens", content |-> <<ToolUse("tu_1", "edit_file", EditAlpha)>>],
      [stop_reason |-> "max_tokens",
       content |-> <<ToolUse("tu_1", "edit_file", EditAlpha), TextBlock("after")>>] }

\* The markdown files hold any text of up to MaxLen characters.
ProbeDisks ==
    {[p \in DiskPaths |-> IF p = <<"project_alpha", "data.txt">> THEN <<"A">> ELSE content] :
        content \in Texts(MaxLen)}

\* The first event after start-up, with one tool round left to run.
ProbeInit ==
    /\ clock = 0
    /\ rounds = MaxRounds - 1
    /\ disk \in ProbeDisks
    /\ turn = [t \in Turns |-> IdleTurn]
    /\ SESSIONS = [c \in Channels |-> 0]
    /\ heap = [o \in ObjIds |-> NoObject]

ProbeNext ==
    \/ \E c \in Channels : StartTurn(1, c)
    \/ LoadDocuments(1)
    \/ \E r \in ProbeResponses : ModelRequestsTools(1, r)
    \/ \E git \in GitOutcomes : RunToolRound(1, git)
    \/ \E r \in ProbeFinals : ModelReplies(1, r)

\* One event whose turn asks for at most one edit and gets a final response,
\* over all the files and inputs above.
ProbeSpec == ProbeInit /\ [][ProbeNext]_vars

\* ---------------------------------------------------------------- claims
StoredMessages(c) == heap[SESSIONS[c]].messages
ToolUses(content) == SelectSeq(content, LAMBDA b : b.type = "tool_use")

\* C1: whenever no turn is in progress, every stored session holds at most
\* 40 messages.
C1_StoredSessionsWithinCap ==
    NoneRunning =>
        \A c \in Channels : SESSIONS[c] # 0 => Len(StoredMessages(c)) <= MAX_MESSAGES

\* C2: when the append of the reply takes a session over 40 messages, what is
\* stored afterwards are the last 40 of the messages with the reply appended,
\* in their order and unaltered.
C2_TruncationKeepsNewest ==
    [][\A t \in Turns :
          (turn[t].pc = "calling" /\ turn'[t].pc = "returned" /\ turn'[t].result.kind = "reply")
          => LET old == heap[turn[t].session].messages
                 new == heap'[turn[t].session].messages
                 drop == Len(old) + 1 - MAX_MESSAGES
             IN  drop > 0 =>
                    /\ Len(new) = MAX_MESSAGES
                    /\ \A i \in 1..(MAX_MESSAGES - 1) : new[i] = old[i + drop]
                    /\ new[MAX_MESSAGES].role = "assistant"
                    /\ new[MAX_MESSAGES].content[1].text = turn'[t].result.text[1]]_vars

\* A session that was truncated: the first warm-up exchange is gone, the second
\* one leads, and the exchange of the first live turn ends the 40 messages.
C2_Truncated ==
    \E c \in Channels :
        /\ SESSIONS[c] # 0
        /\ Len(StoredMessages(c)) = MAX_MESSAGES
        /\ StoredMessages(c)[1].role = "user"
        /\ StoredMessages(c)[1].content[1].request = UserText(2)
        /\ StoredMessages(c)[MAX_MESSAGES - 1].role = "user"
        /\ StoredMessages(c)[MAX_MESSAGES - 1].content[1].request = UserText(MaxWarm + 1)
        /\ StoredMessages(c)[MAX_MESSAGES].role = "assistant"

\* C3: right after get_session, the session returned is empty if the stored
\* one was last active more than 1800 seconds ago, and has the stored one's
\* messages if it was last active at most 1800 seconds ago.
C3_ExpiryOnAccess ==
    \A t \in Turns :
        turn[t].pc = "loading" =>
            LET was == turn[t].found
            IN  was.last_activity >= 0 =>
                    IF clock - was.last_activity > SESSION_TIMEOUT
                    THEN heap[turn[t].session].messages = <<>>
                    ELSE heap[turn[t].session].messages = was.messages

\* get_session has just replaced a stale session that had messages.
C3_StaleSessionReplaced ==
    \E t \in Turns :
        /\ turn[t].pc = "loading"
        /\ turn[t].found.last_activity >= 0
        /\ turn[t].found.messages # <<>>
        /\ clock - turn[t].found.last_activity > SESSION_TIMEOUT
        /\ heap[turn[t].session].messages = <<>>

\* C4: right after get_session(c) at time now, no stored session was last
\* active more than 1800 seconds before now, c has a stored session, it is
\* the one returned and its last_activity is now.
C4_StoreAfterGetSession ==
    \A t \in Turns :
        turn[t].pc = "loading" =>
            /\ \A c \in Channels :
                   SESSIONS[c] # 0 => clock - heap[SESSIONS[c]].last_activity <= SESSION_TIMEOUT
            /\ SESSIONS[turn[t].channel] # 0
            /\ SESSIONS[turn[t].channel] = turn[t].session
            /\ heap[turn[t].session].last_activity = clock

\* get_session for one channel has just removed the stale session of another.
C4_OtherSessionSwept ==
    \E t \in Turns : \E c \in Channels :
        /\ turn[t].pc = "loading"
        /\ c # turn[t].channel
        /\ c \in turn[t].dropped
        /\ SESSIONS[c] = 0

\* C5: ask_claude never ends by raising an exception to its caller.
C5_AskClaudeNeverRaises ==
    \A t \in Turns : turn[t].result.kind # "raised"

\* C6: when a turn ends in the except clause, the conversation's stored
\* messages are those it had when the turn arrived (none, if its session had
\* expired) followed by the turn's user message and nothing else.
C6_FailedTurnAddsUserMessageOnly ==
    [][\A t \in Turns :
          (turn[t].pc \in {"calling", "tools"} /\ turn'[t].pc = "returned"
              /\ turn'[t].result.kind = "error")
          => LET was == turn[t].found
                 before == IF was.last_activity >= 0
                              /\ clock - was.last_activity <= SESSION_TIMEOUT
                           THEN was.messages ELSE <<>>
                 after == heap'[SESSIONS'[turn[t].channel]].messages
             IN  /\ Len(after) = Len(before) + 1
                 /\ SubSeq(after, 1, Len(before)) = before
                 /\ after[Len(after)].role = "user"
                 /\ after[Len(after)].content[1].request = turn[t].user_message]_vars

\* A turn has failed and its user message ends a session that had messages.
C6_FailedTurnReturned ==
    \E t \in Turns :
        /\ turn[t].pc = "returned"
        /\ turn[t].result.kind = "error"
        /\ SESSIONS[turn[t].channel] # 0
        /\ Len(StoredMessages(turn[t].channel)) >= 2
        /\ Last(StoredMessages(turn[t].channel)).role = "user"
        /\ Last(StoredMessages(turn[t].channel)).content[1].request = turn[t].user_message

\* C7: the files appendix of every model request in flight is the rendering
\* of the visible documents as they are on disk.
C7_RequestContextIsCurrent ==
    \A t \in Turns :
        turn[t].pc = "calling" =>
            turn[t].system = get_all_markdown_files(disk, turn[t].allowed_dirs)

C9_ToolFailureNeverEndsTurn ==
    [][\A t \in Turns : turn[t].pc = "tools" => turn'[t].pc \in {"tools", "calling"}]_vars

\* C10: in a round of a turn with a restricted scope, every edit_file call
\* whose path's first segment is not an allowed directory (a path without a
\* directory has none) gets the access-denied result, and a file that no
\* other call of the round names is left as it was.
C10_RestrictedEditDenied ==
    [][\A t \in Turns :
          (turn[t].pc = "tools" /\ turn'[t].pc # "tools"
              /\ turn[t].channel \in DOMAIN CHANNEL_ACCESS)
          => LET uses == ToolUses(turn[t].response.content)
                 allowed == SeqElems(CHANNEL_ACCESS[turn[t].channel])
                 IsEdit(b) == b.name = "edit_file" /\ EditKeys \subseteq DOMAIN b.input
                 OutOfScope(b) ==
                     /\ IsEdit(b)
                     /\ \/ Len(b.input.file_path) = 1
                        \/ b.input.file_path[1] \notin allowed
             IN  /\ turn'[t].pc = "calling" =>
                       \A i \in 1..Len(uses) :
                           OutOfScope(uses[i]) =>
                               Last(turn'[t].messages).content[i].content[1]
                                   = "Error: You don't have access to edit files in"
                 /\ \A p \in DiskPaths :
                       (\A i \in 1..Len(uses) :
                            (IsEdit(uses[i]) /\ ~OutOfScope(uses[i]))
                                => Resolve(uses[i].input.file_path) # p)
                       => disk'[p] = disk[p]]_vars

\* A restricted turn asked to edit the root-level readme.md and an existing
\* file of the other project; both calls were denied and the files are as
\* they were.
C10_DeniedInRound ==
    \E t \in Turns :
        /\ turn[t].pc = "calling"
        /\ turn[t].allowed_dirs # NoList
        /\ Len(Last(turn[t].messages).content) = 2
        /\ Last(turn[t].messages).content[1].type = "tool_result"
        /\ Last(turn[t].messages).content[1].content = AccessDenied("project_beta")
        /\ Last(turn[t].messages).content[2].content = AccessDenied(None)
        /\ disk[<<"readme.md">>] = InitFiles[<<"readme.md">>]
        /\ disk[<<"project_beta", "notes.md">>] = InitFiles[<<"project_beta", "notes.md">>]

\* The edit_file call of a round with one tool_use block, and its result.
TheCall(tr) == tr.response.content[1].input
TheResult(tr) == Last(tr.messages).content[1].content

\* C11: when edit_file returns its confirmation, the file the path leads to
\* holds its old content with the leftmost occurrence of find_text replaced by
\* replace_text and everything before and after it as it was, every other
\* file is as it was, and the confirmation names the path.
C11_EditReplacesFirstOccurrence ==
    [][(turn[1].pc = "tools" /\ turn'[1].pc = "calling"
           /\ TheResult(turn'[1])[1] = "Updated: replaced text successfully.")
       => LET call == TheCall(turn[1])
              file == Resolve(call.file_path)
              old == disk[file]
              new == disk'[file]
              find == call.find_text
              At(j) == /\ j + Len(find) - 1 <= Len(old)
                       /\ SubSeq(old, j, j + Len(find) - 1) = find
          IN  /\ \E i \in 1..(Len(old) + 1) :
                    /\ At(i)
                    /\ \A j \in 1..(i - 1) : ~At(j)
                    /\ new = SubSeq(old, 1, i - 1) \o call.replace_text
                                \o SubSeq(old, i + Len(find), Len(old))
              /\ \A q \in DiskPaths \ {file} : disk'[q] = disk[q]
              /\ TheResult(turn'[1])[2] = call.file_path]_vars

\* "AxA" with find "A" and replace "B" has become "BxA", the other files are
\* as they were.
C11_FirstOfTwoReplaced ==
    /\ turn[1].pc = "calling"
    /\ Len(turn[1].messages) = 3
    /\ turn[1].messages[2].content[1].input = Edit(<<"project_alpha", "todo.md">>, <<"A">>, <<"B">>)
    /\ TheResult(turn[1]) = Updated(<<"project_alpha", "todo.md">>)
    /\ disk[<<"project_alpha", "todo.md">>] = <<"B", "x", "A">>
    /\ disk[<<"project_beta", "notes.md">>] = <<"A", "x", "A">>

\* C12: a call of edit_file that does not return the confirmation, or that
\* raises, leaves every file as it was; and it returns the confirmation (the
\* file was written) only if the scope allows the path's directory, the file
\* exists, its name ends in .md and find_text occurs in its content.
C12_EditErrorsChangeNothing ==
    [][(turn[1].pc = "tools" /\ turn'[1].pc # "tools")
       => LET call == TheCall(turn[1])
              file == Resolve(call.file_path)
              allowed == turn[1].allowed_dirs
              find == call.find_text
              written == /\ turn'[1].pc = "calling"
                         /\ TheResult(turn'[1])[1] = "Updated: replaced text successfully."
          IN  /\ ~written => disk' = disk
              /\ written =>
                    /\ \/ allowed = NoList
                       \/ /\ Len(call.file_path) > 1
                          /\ \E k \in 1..Len(allowed) : allowed[k] = call.file_path[1]
                    /\ file \in DiskPaths
                    /\ Suffix(Last(file)) = ".md"
                    /\ \E j \in 1..(Len(disk[file]) + 1) :
                          /\ j + Len(find) - 1 <= Len(disk[file])
                          /\ SubSeq(disk[file], j, j + Len(find) - 1) = find]_vars

\* A call whose find_text "xx" is not in "AxA" got the error and the file is
\* as it was.
C12_TextNotFoundUnchanged ==
    /\ turn[1].pc = "calling"
    /\ Len(turn[1].messages) = 3
    /\ turn[1].messages[2].content[1].input.find_text = <<"x", "x">>
    /\ TheResult(turn[1]) = TextNotFound(<<"project_alpha", "todo.md">>)
    /\ disk[<<"project_alpha", "todo.md">>] = <<"A", "x", "A">>

\* The document at path p is in the rendering: with its path and content, or,
\* when it cannot be read, as the error placeholder under its name.
Shown(context, files, p) ==
    \E i \in 1..Len(context) :
        \/ context[i].path = p /\ context[i].body = files[p] /\ p \notin Unreadable
        \/ context[i].path = <<Last(p)>> /\ context[i].body = ReadError /\ p \in Unreadable

IsDocument(p) == Suffix(Last(p)) = ".md"
Configured(d) == \E k \in 1..Len(PROJECTS) : PROJECTS[k] = d
InScope(allowed_dirs, d) == \E k \in 1..Len(allowed_dirs) : allowed_dirs[k] = d

\* C13 as stated: what get_all_markdown_files returns shows, with an
\* unrestricted scope, every root-level document and every document of a
\* configured project; with a restricted scope, the documents of the
\* configured projects in the scope and no other.
C13_ScopeOfDocuments ==
    [][(turn[1].pc = "loading" /\ turn'[1].pc = "calling")
       => LET context == turn'[1].project_context
              allowed == turn[1].allowed_dirs
          IN  \A p \in DiskPaths :
                  IsDocument(p) =>
                      (Shown(context, disk, p) <=>
                          IF allowed = NoList
                          THEN Len(p) = 1 \/ Configured(p[1])
                          ELSE Len(p) > 1 /\ Configured(p[1]) /\ InScope(allowed, p[1]))]_vars

\* C13, amended: with an unrestricted scope every root-level document other
\* than CLAUDE.md is shown and every document of a configured project; with
\* a restricted scope exactly the documents of the configured projects in
\* the scope; and nothing is shown that is not such a document.
C13_ScopeOfDocumentsButInstructions ==
    [][(turn[1].pc = "loading" /\ turn'[1].pc = "calling")
       => LET context == turn'[1].project_context
              allowed == turn[1].allowed_dirs
              Visible(p) ==
                  /\ IsDocument(p)
                  /\ IF allowed = NoList
                     THEN (Len(p) = 1 /\ p # <<"CLAUDE.md">>) \/ (Len(p) > 1 /\ Configured(p[1]))
                     ELSE Len(p) > 1 /\ Configured(p[1]) /\ InScope(allowed, p[1])
          IN  /\ \A p \in DiskPaths : Shown(context, disk, p) <=> Visible(p)
              /\ Len(context) = Cardinality({p \in DiskPaths : Visible(p)})]_vars

\* A turn with the scope {project_alpha} was given the one document of that
\* project and nothing else.
C13_RestrictedSeesOwnProject ==
    /\ turn[1].pc = "calling"
    /\ turn[1].allowed_dirs = <<"project_alpha">>
    /\ Len(turn[1].messages) = 1
    /\ Len(turn[1].project_context) = 1
    /\ turn[1].project_context[1].path = <<"project_alpha", "todo.md">>
    /\ turn[1].project_context[1].body = disk[<<"project_alpha", "todo.md">>]

\* C14: when the model's final response ends a turn, what ask_claude returns
\* is the text of the first block of the response that has text, or the
\* fallback string when no block has; and the assistant message appended to
\* the session holds that same string.
C14_ReplyIsFirstText ==
    [][(turn[1].pc = "calling" /\ turn'[1].pc = "returned" /\ turn'[1].result.kind = "reply")
       => LET content == turn'[1].response.content
              withText == {i \in 1..Len(content) : content[i].type = "text"}
              reply == turn'[1].result.text[1]
              stored == heap'[SESSIONS'[turn[1].channel]].messages
          IN  /\ withText = {} => reply = Fallback
              /\ withText # {} =>
                    \E i \in withText : /\ \A j \in withText : i <= j
                                        /\ reply = content[i].text
              /\ Last(stored).role = "assistant"
              /\ Last(stored).content = Str(reply)]_vars

\* A final response with two text blocks was answered with the first of them,
\* and that is what the session ends with.
C14_FirstOfTwoTexts ==
    /\ turn[1].pc = "returned"
    /\ Len(turn[1].response.content) = 2
    /\ turn[1].response.content[2] = TextBlock("second")
    /\ turn[1].result.text[1] = "first"
    /\ Last(heap[SESSIONS[turn[1].channel]].messages).content = Str("first")

\* C15: every event taken up is eventually answered: its ask_claude call
\* returns a string (the reply or the error text), given that every call it
\* waits for comes back or fails.
C15_EveryTurnAnswered ==
    \A t \in Turns :
        (turn[t].pc = "loading")
            ~> (turn[t].pc = "returned" /\ turn[t].result.kind \in {"reply", "error"})

\* C16: when a turn saves its reply, the reply is stored right after the
\* turn's own user message, also when another event of the same conversation
\* is handled at the same time.
C16_ReplyFollowsOwnUserMessage ==
    [][\A t \in Turns :
          (turn[t].pc = "calling" /\ turn'[t].pc = "returned" /\ turn'[t].result.kind = "reply")
          => LET stored == heap'[turn[t].session].messages
             IN  /\ Len(stored) >= 2
                 /\ stored[Len(stored)].role = "assistant"
                 /\ stored[Len(stored) - 1].role = "user"
                 /\ stored[Len(stored) - 1].content[1].request = turn[t].user_message]_vars

\* The channel a step of turn t works for.
ChannelOf(before, after) == IF before.channel # None THEN before.channel ELSE after.channel

\* C17: a step of a turn for one conversation leaves the stored session of
\* every other conversation as it is, messages and last_activity, unless the
\* step is the turn's get_session call and the other session has expired at
\* that time: then that session is removed from the store.
C17_OtherSessionsUntouched ==
    [][\A t \in Turns :
          turn'[t] # turn[t] =>
              \A b \in Channels \ {ChannelOf(turn[t], turn'[t])} :
                  \/ /\ SESSIONS'[b] = SESSIONS[b]
                     /\ SESSIONS[b] # 0 => heap'[SESSIONS[b]] = heap[SESSIONS[b]]
                  \/ /\ SESSIONS[b] # 0
                     /\ SESSIONS'[b] = 0
                     /\ turn[t].pc = "idle"
                     /\ clock - heap[SESSIONS[b]].last_activity > SESSION_TIMEOUT]_vars

\* Two turns of different conversations are in progress at once and both
\* sessions are stored, each ending with its own turn's user message.
C17_TwoConversationsAtOnce ==
    \E t, u \in Turns :
        /\ turn[t].pc = "calling" /\ turn[u].pc = "calling"
        /\ turn[t].channel # turn[u].channel
        /\ SESSIONS[turn[t].channel] = turn[t].session
        /\ SESSIONS[turn[u].channel] = turn[u].session
        /\ Last(heap[turn[t].session].messages).content[1].request = turn[t].user_message
        /\ Last(heap[turn[u].session].messages).content[1].request = turn[u].user_message

\* C18: with one turn handled at a time, whenever no turn is in progress the
\* messages of every stored session alternate user, assistant, user, ...,
\* beginning with a user message.
C18_RolesAlternate ==
    NoneRunning =>
        \A c \in Channels :
            SESSIONS[c] # 0 =>
                \A i \in 1..Len(StoredMessages(c)) :
                    StoredMessages(c)[i].role = IF i % 2 = 1 THEN "user" ELSE "assistant"

\* C19: a tool round appends its two messages to the turn's own list and
\* leaves the stored session as it is; and when a turn is answered, the
\* session holds the messages it had when the turn arrived, the turn's user
\* message and the reply, cut to the last 40, all of them plain strings.
C19_TurnAddsTwoMessages ==
    [][\A t \in Turns :
          /\ (turn[t].pc = "tools" /\ turn'[t].pc = "calling")
             => /\ Len(turn'[t].messages) = Len(turn[t].messages) + 2
                /\ heap'[turn[t].session].messages = heap[turn[t].session].messages
          /\ (turn[t].pc = "calling" /\ turn'[t].pc = "returned"
                 /\ turn'[t].result.kind = "reply")
             => LET was == turn[t].found
                    arrived == IF was.last_activity >= 0
                                  /\ heap[turn[t].session].last_activity - was.last_activity
                                         <= SESSION_TIMEOUT
                               THEN was.messages ELSE <<>>
                    after == heap'[SESSIONS'[turn[t].channel]].messages
                    cut == IF Len(arrived) + 2 > MAX_MESSAGES
                           THEN Len(arrived) + 2 - MAX_MESSAGES ELSE 0
                    Whole(i) == IF i <= Len(arrived) THEN arrived[i]
                                ELSE IF i = Len(arrived) + 1
                                THEN heap[turn[t].session].messages[i]
                                ELSE Message("assistant", Str(turn'[t].result.text[1]))
                IN  /\ Len(heap[turn[t].session].messages) = Len(arrived) + 1
                    /\ Whole(Len(arrived) + 1).role = "user"
                    /\ Whole(Len(arrived) + 1).content[1].request = turn[t].user_message
                    /\ Len(after) = Len(arrived) + 2 - cut
                    /\ \A i \in 1..Len(after) :
                          /\ after[i] = Whole(i + cut)
                          /\ after[i].content[1].type = "str"]_vars

\* The first turn ran a tool round and was answered: its session holds the
\* user message and the reply and nothing of the round.
C19_TwoMessagesAfterRound ==
    /\ turn[1].pc = "returned"
    /\ turn[1].result.kind = "reply"
    /\ rounds = 1
    /\ SESSIONS[turn[1].channel] # 0
    /\ Len(StoredMessages(turn[1].channel)) = 2
    /\ StoredMessages(turn[1].channel)[1].role = "user"
    /\ StoredMessages(turn[1].channel)[2] = Message("assistant", Str(turn[1].result.text[1]))

\* C20: no step of a turn with a restricted scope changes a file that lies
\* outside the allowed directories, whatever path the model asks for.
C20_RestrictedScopeConfinesEdits ==
    [][\A t \in Turns :
          (turn[t].pc = "tools" /\ turn[t].allowed_dirs # NoList)
          => \A p \in DiskPaths :
                 (Len(p) = 1 \/ ~InScope(turn[t].allowed_dirs, p[1]))
                     => disk'[p] = disk[p]]_vars

====
